---- MODULE Spec2Model ----
(***************************************************************************)
(* Model of src/main.py: the Edge WebDriver installer.                     *)
(*                                                                         *)
(* install_edge_webdriver is a sequential program.  pc is its position;    *)
(* every external call (the version probe, the two HTTP requests, each     *)
(* filesystem call of install_webdriver) is one step whose outcome is      *)
(* chosen by the environment.  The filesystem is the record fs.            *)
(* Positions in available_versions are 0-based, as in the Python source.   *)
(***************************************************************************)
EXTENDS Integers, Sequences, FiniteSets

\* ---------------------------------------------------------------- bounds
NumVersions == 2
MaxLen == 3
MaxPathLen == 2

Versions == 1..NumVersions

\* ------------------------------------------------------------- encodings
NoVersion == 0
NoName == 0
NoFile == 0
NoLink == 0
Partial == -1

PathChars == {"a", "b", ":"}
PathSep == ":"
InstallDirs == {<<"a">>, <<"a", "b">>}

SeqsUpTo(S, n) == UNION {[1..k -> S] : k \in 0..n}

VARIABLES
  pc,                 \* position in install_edge_webdriver / install_webdriver
  PATH,               \* os.environ["PATH"], a sequence of characters
  install_dir,        \* str(install_dir), a sequence of characters
  edge_version,       \* result of get_edge_version()
  fetch,              \* how get_available_versions() ended
  available_versions, \* its result
  start_index,        \* 0-based
  pos,                \* 0-based position of the loop's current candidate
  tried,              \* history: positions passed to download_webdriver
  results,            \* history: how each of those calls ended
  installs,           \* history: versions passed to install_webdriver
  steps,              \* history: steps of install_webdriver that completed
  failed,             \* the step of install_webdriver that raised, or "none"
  error,              \* the exception class that was raised last, or "none"
  fs,                 \* the filesystem
  fs0,                \* the filesystem when the run started
  logs,               \* messages logged
  outcome,            \* "Running", "ProbeFailed", "Installed", "Exhausted", "Crashed"
  exitCode            \* -1 while running

vars == <<pc, PATH, install_dir, edge_version, fetch, available_versions,
          start_index, pos, tried, results, installs, steps, failed, error,
          fs, fs0, logs, outcome, exitCode>>

\* ------------------------------------------------------------ filesystem
\* archive: content of ./edgedriver_linux64.zip (a version, Partial or NoFile)
\* staged:  content of /tmp/msedgedriver (a version or NoFile), mode its bits
\* dir:     the install directory exists
\* files:   the versions v with <install_dir>/msedgedriver_v present
\* exec:    those of them that are executable
\* link:    the version <install_dir>/msedgedriver points at, or NoLink
FileSystems ==
  {[archive |-> NoFile, staged |-> NoFile, mode |-> "none",
    dir |-> d, files |-> f, exec |-> f, link |-> l] :
      d \in BOOLEAN, f \in SUBSET Versions, l \in Versions \cup {NoLink}}

InitialFileSystems ==
  {f \in FileSystems : ~f.dir => (f.files = {} /\ f.link = NoLink)}

\* --------------------------------------------------------------- strings
Contains(s, sub) ==
  \E k \in 0..(Len(s) - Len(sub)) : SubSeq(s, k + 1, k + Len(sub)) = sub

\* ------------------------------------------------------------------ Init
InitRest ==
  /\ pc = "Idle"
  /\ edge_version = NoVersion
  /\ fetch = "none"
  /\ available_versions = <<>>
  /\ start_index = 0
  /\ pos = 0
  /\ tried = <<>>
  /\ results = <<>>
  /\ installs = <<>>
  /\ steps = <<>>
  /\ failed = "none"
  /\ error = "none"
  /\ fs0 = fs
  /\ logs = <<>>
  /\ outcome = "Running"
  /\ exitCode = -1

Init ==
  /\ install_dir = <<"a">>
  /\ PATH = <<"b">>
  /\ fs \in InitialFileSystems
  /\ InitRest

InitPath ==
  /\ install_dir \in InstallDirs
  /\ PATH \in SeqsUpTo(PathChars, MaxPathLen)
  /\ fs \in {f \in InitialFileSystems : f.files = {} /\ f.link = NoLink}
  /\ InitRest

\* ------------------------------------------------- install_edge_webdriver
\* An exception nothing catches: the interpreter prints the traceback and
\* the process ends with exit status 1.
Crash(exc) ==
  /\ pc' = "Done"
  /\ error' = exc
  /\ outcome' = "Crashed"
  /\ exitCode' = 1

\* lines 92-93: the test is Python's substring test on the whole PATH string
EnsureOnPath ==
  /\ pc = "Idle"
  /\ PATH' = IF ~Contains(PATH, install_dir)
               THEN PATH \o <<PathSep>> \o install_dir
               ELSE PATH
  /\ pc' = "Probe"
  /\ UNCHANGED <<install_dir, edge_version, fetch, available_versions,
                 start_index, pos, tried, results, installs, steps, failed,
                 error, fs, fs0, logs, outcome, exitCode>>

\* get_edge_version() found a four-part version in the command's output
ProbeFound ==
  /\ pc = "Probe"
  /\ \E v \in Versions : edge_version' = v
  /\ logs' = logs \o <<"detected_version", "downloading_matching">>
  /\ pc' = "Fetch"
  /\ UNCHANGED <<PATH, install_dir, fetch, available_versions, start_index,
                 pos, tried, results, installs, steps, failed, error, fs, fs0,
                 outcome, exitCode>>

\* the error is logged but the exit is missing
ProbeAbsentContinues ==
  /\ pc = "Probe"
  /\ edge_version' = NoVersion
  /\ logs' = Append(logs, "edge_not_installed")
  /\ pc' = "Fetch"
  /\ UNCHANGED <<PATH, install_dir, fetch, available_versions, start_index,
                 pos, tried, results, installs, steps, failed, error, fs, fs0,
                 outcome, exitCode>>

\* get_edge_version() returned None: log the error and exit(1)
ProbeAbsent ==
  /\ pc = "Probe"
  /\ edge_version' = NoVersion
  /\ logs' = Append(logs, "edge_not_installed")
  /\ pc' = "Done"
  /\ outcome' = "ProbeFailed"
  /\ exitCode' = 1
  /\ UNCHANGED <<PATH, install_dir, fetch, available_versions, start_index,
                 pos, tried, results, installs, steps, failed, error, fs, fs0>>

\* a start position that ignores the detected version
StartIndexZero(d, L) == 0

\* lines 106-109: list.index gives the first position of the value
IndexOf(L, d) ==
  CHOOSE k \in 0..(Len(L) - 1) :
    /\ L[k + 1] = d
    /\ \A j \in 0..(k - 1) : L[j + 1] # d

StartIndex(d, L) ==
  IF \E k \in 1..Len(L) : L[k] = d THEN IndexOf(L, d) ELSE 0

\* lines 79-83: the names of the BlobPrefix elements that have a Name,
\* in document order
NamesOf(doc) == SelectSeq(doc, LAMBDA e : e # NoName)

\* get_available_versions() parsed the listing; then lines 106-109
FetchOk ==
  /\ pc = "Fetch"
  /\ \E doc \in SeqsUpTo(Versions \cup {NoName}, MaxLen) :
       /\ available_versions' = NamesOf(doc)
       /\ start_index' = StartIndex(edge_version, NamesOf(doc))
       /\ pos' = StartIndex(edge_version, NamesOf(doc))
  /\ fetch' = "ok"
  /\ pc' = "Trying"
  /\ UNCHANGED <<PATH, install_dir, edge_version, tried, results, installs,
                 steps, failed, error, fs, fs0, logs, outcome, exitCode>>

\* requests.get or raise_for_status raised a RequestException: lines 85-87
FetchRequestFails ==
  /\ pc = "Fetch"
  /\ fetch' = "request_failed"
  /\ error' = "RequestException"
  /\ logs' = Append(logs, "error_fetching_versions")
  /\ available_versions' = <<>>
  /\ start_index' = StartIndex(edge_version, <<>>)
  /\ pos' = StartIndex(edge_version, <<>>)
  /\ pc' = "Trying"
  /\ UNCHANGED <<PATH, install_dir, edge_version, tried, results, installs,
                 steps, failed, fs, fs0, outcome, exitCode>>

\* the body is not well-formed XML (or not UTF-8): ET.fromstring raises
\* ParseError, which is no RequestException and is caught nowhere
FetchParseFails ==
  /\ pc = "Fetch"
  /\ fetch' = "parse_failed"
  /\ Crash("ParseError")
  /\ UNCHANGED <<PATH, install_dir, edge_version, available_versions,
                 start_index, pos, tried, results, installs, steps, failed,
                 fs, fs0, logs>>

Candidate == available_versions[pos + 1]

\* download_webdriver(version): the GET failed, lines 41-43
DownloadRequestFails ==
  /\ pc = "Trying"
  /\ pos < Len(available_versions)
  /\ tried' = Append(tried, pos)
  /\ results' = Append(results, "False")
  /\ error' = "RequestException"
  /\ logs' = Append(logs, "error_downloading")
  /\ pos' = pos + 1
  /\ UNCHANGED <<pc, PATH, install_dir, edge_version, fetch,
                 available_versions, start_index, installs, steps, failed,
                 fs, fs0, outcome, exitCode>>

\* download_webdriver(version): the GET succeeded, open() or write() raised
\* OSError, which is no RequestException; the file is left as it was (open
\* failed) or truncated (write failed)
DownloadWriteFails ==
  /\ pc = "Trying"
  /\ pos < Len(available_versions)
  /\ tried' = Append(tried, pos)
  /\ results' = Append(results, "raised")
  /\ \E a \in {fs.archive, Partial} : fs' = [fs EXCEPT !.archive = a]
  /\ Crash("OSError")
  /\ UNCHANGED <<PATH, install_dir, edge_version, fetch, available_versions,
                 start_index, pos, installs, steps, failed, fs0, logs>>

\* install_webdriver is called with the detected version, not the candidate
DownloadOkInstallsDetected ==
  /\ pc = "Trying"
  /\ pos < Len(available_versions)
  /\ tried' = Append(tried, pos)
  /\ results' = Append(results, "True")
  /\ fs' = [fs EXCEPT !.archive = Candidate]
  /\ logs' = logs \o <<"downloaded", "installing">>
  /\ installs' = Append(installs, edge_version)
  /\ pc' = "extract"
  /\ UNCHANGED <<PATH, install_dir, edge_version, fetch, available_versions,
                 start_index, pos, steps, failed, error, fs0, outcome,
                 exitCode>>

\* download_webdriver(version) returned True; lines 113-115 enter
\* install_webdriver(install_dir, version)
DownloadOk ==
  /\ pc = "Trying"
  /\ pos < Len(available_versions)
  /\ tried' = Append(tried, pos)
  /\ results' = Append(results, "True")
  /\ fs' = [fs EXCEPT !.archive = Candidate]
  /\ logs' = logs \o <<"downloaded", "installing">>
  /\ installs' = Append(installs, Candidate)
  /\ pc' = "extract"
  /\ UNCHANGED <<PATH, install_dir, edge_version, fetch, available_versions,
                 start_index, pos, steps, failed, error, fs0, outcome,
                 exitCode>>

\* the for loop's else clause, lines 118-121, then the function returns
LoopExhausted ==
  /\ pc = "Trying"
  /\ pos >= Len(available_versions)
  /\ logs' = Append(logs, "failed_to_download_and_install")
  /\ pc' = "Done"
  /\ outcome' = "Exhausted"
  /\ exitCode' = 0
  /\ UNCHANGED <<PATH, install_dir, edge_version, fetch, available_versions,
                 start_index, pos, tried, results, installs, steps, failed,
                 error, fs, fs0>>

\* ------------------------------------------------------ install_webdriver
\* The statements of the try block, lines 48-65, one action each; pc orders
\* them: extract, chmod, mkdir, move, unlink, symlink, remove.
Installing == installs[Len(installs)]

InstallUnchanged ==
  UNCHANGED <<PATH, install_dir, edge_version, fetch, available_versions,
              start_index, pos, tried, results, installs, fs0, outcome,
              exitCode>>

\* a handler that also deletes the archive
InstallRaisesCleanup(step, exc) ==
  /\ failed' = step
  /\ error' = exc
  /\ logs' = Append(logs, "error_installing")
  /\ pc' = "InstallReturned"
  /\ fs' = [fs EXCEPT !.archive = NoFile]
  /\ UNCHANGED steps
  /\ InstallUnchanged

\* lines 68-69: the statement at `step` raised exc; the handler logs it and
\* install_webdriver returns
InstallRaises(step, exc) ==
  /\ failed' = step
  /\ error' = exc
  /\ logs' = Append(logs, "error_installing")
  /\ pc' = "InstallReturned"
  /\ UNCHANGED <<fs, steps>>
  /\ InstallUnchanged

\* the statement at `step` completed with the filesystem now f
InstallStep(step, f, next) ==
  /\ fs' = f
  /\ steps' = Append(steps, step)
  /\ pc' = next
  /\ UNCHANGED <<failed, error, logs>>
  /\ InstallUnchanged

\* lines 48-49
Extract ==
  /\ pc = "extract"
  /\ \/ InstallStep("extract",
                    [fs EXCEPT !.staged = fs.archive, !.mode = "0644"],
                    "chmod")
     \/ InstallRaises("extract", "OSError")

\* line 50
Chmod ==
  /\ pc = "chmod"
  /\ \/ InstallStep("chmod", [fs EXCEPT !.mode = "0755"], "mkdir")
     \/ InstallRaises("chmod", "OSError")

\* line 53
Mkdir ==
  /\ pc = "mkdir"
  /\ \/ InstallStep("mkdir", [fs EXCEPT !.dir = TRUE], "move")
     \/ InstallRaises("mkdir", "OSError")

\* lines 56-57: the staged binary replaces any msedgedriver_<version> and
\* keeps its mode
Move ==
  /\ pc = "move"
  /\ \/ InstallStep("move",
                    [fs EXCEPT !.files = fs.files \cup {Installing},
                               !.exec = IF fs.mode = "0755"
                                          THEN fs.exec \cup {Installing}
                                          ELSE fs.exec \ {Installing},
                               !.staged = NoFile,
                               !.mode = "none"],
                    "unlink")
     \/ InstallRaises("move", "OSError")

\* line 61: Path.exists() follows the symlink, so it is true only if the
\* link's target is present
SymlinkPathExists(f) == f.link # NoLink /\ f.link \in f.files

\* lines 61-62
Unlink ==
  /\ pc = "unlink"
  /\ IF SymlinkPathExists(fs)
       THEN \/ InstallStep("unlink", [fs EXCEPT !.link = NoLink], "symlink")
            \/ InstallRaises("unlink", "OSError")
       ELSE /\ pc' = "symlink"
            /\ UNCHANGED <<fs, steps, failed, error, logs>>
            /\ InstallUnchanged

\* line 63: symlink_to raises FileExistsError when the name is taken
Symlink ==
  /\ pc = "symlink"
  /\ IF fs.link # NoLink
       THEN InstallRaises("symlink", "FileExistsError")
       ELSE \/ InstallStep("symlink", [fs EXCEPT !.link = Installing],
                           "remove")
            \/ InstallRaises("symlink", "OSError")

\* lines 65-67
Remove ==
  /\ pc = "remove"
  /\ \/ /\ fs' = [fs EXCEPT !.archive = NoFile]
        /\ steps' = Append(steps, "remove")
        /\ logs' = Append(logs, "symlink_created")
        /\ pc' = "InstallReturned"
        /\ UNCHANGED <<failed, error>>
        /\ InstallUnchanged
     \/ InstallRaises("remove", "OSError")

\* lines 116-117: after install_webdriver returned, however it went
ReportInstalled ==
  /\ pc = "InstallReturned"
  /\ logs' = Append(logs, "installed_successfully")
  /\ pc' = "Done"
  /\ outcome' = "Installed"
  /\ exitCode' = 0
  /\ UNCHANGED <<PATH, install_dir, edge_version, fetch, available_versions,
                 start_index, pos, tried, results, installs, steps, failed,
                 error, fs, fs0>>

Next ==
  \/ EnsureOnPath
  \/ ProbeFound
  \/ ProbeAbsent
  \/ FetchOk
  \/ FetchRequestFails
  \/ FetchParseFails
  \/ DownloadRequestFails
  \/ DownloadWriteFails
  \/ DownloadOk
  \/ LoopExhausted
  \/ Extract
  \/ Chmod
  \/ Mkdir
  \/ Move
  \/ Unlink
  \/ Symlink
  \/ Remove
  \/ ReportInstalled

Spec == Init /\ [][Next]_vars

SpecPath == InitPath /\ [][Next]_vars

\* ------------------------------------------------------------ properties

\* C1: the loop starts at the first position of the detected version in the
\* fetched list, and nothing before that position is ever tried; when the
\* detected version is not in the list the first candidate tried is L[0].
C1_StartPosition ==
  LET L == available_versions
      d == edge_version
  IN  pc \in {"Trying", "extract", "chmod", "mkdir", "move", "unlink",
              "symlink", "remove", "InstallReturned"}
        \/ (pc = "Done" /\ fetch \in {"ok", "request_failed"})
      => /\ (\E k \in 1..Len(L) : L[k] = d) =>
              /\ L[start_index + 1] = d
              /\ \A j \in 1..start_index : L[j] # d
              /\ \A k \in 1..Len(tried) : tried[k] >= start_index
              /\ tried # <<>> => tried[1] = start_index
         /\ ~(\E k \in 1..Len(L) : L[k] = d) =>
              (tried # <<>> => tried[1] = 0)

\* the detected version occurs twice, first at a position after 0, and a
\* download has been attempted
C1_Witness ==
  /\ start_index >= 1
  /\ tried # <<>>
  /\ \E k \in (start_index + 2)..Len(available_versions) :
       available_versions[k] = edge_version

\* C2: candidates are tried in list order from the start position; the
\* first successful download is the last attempt, install_webdriver is
\* called for that same version, and the run ends Installed with the
\* success message, whether or not install_webdriver failed inside.
C2_FirstSuccessInstalls ==
  /\ \A k \in 1..Len(tried) : tried[k] = start_index + k - 1
  /\ \A k \in 1..Len(results) :
       results[k] = "True" =>
         /\ k = Len(results)
         /\ installs = <<available_versions[tried[k] + 1]>>
         /\ pc = "Done" =>
              /\ outcome = "Installed"
              /\ logs[Len(logs)] = "installed_successfully"
  /\ installs # <<>> => (results # <<>> /\ results[Len(results)] = "True")

\* the second candidate tried was downloaded and the run ended Installed
\* although install_webdriver failed inside
C2_Witness ==
  /\ pc = "Done"
  /\ outcome = "Installed"
  /\ Len(tried) = 2
  /\ results = <<"False", "True">>
  /\ failed # "none"

\* C3: when the probe yields no version the run ends with a non-zero exit
\* code, without fetching the index, without a download attempt and with
\* the filesystem as it was.
C3_ProbeAbsentStops ==
  (pc \notin {"Idle", "Probe"} /\ edge_version = NoVersion) =>
    /\ pc = "Done"
    /\ outcome = "ProbeFailed"
    /\ exitCode \notin {0, -1}
    /\ fetch = "none"
    /\ tried = <<>>
    /\ installs = <<>>
    /\ fs = fs0

C3_Witness ==
  /\ outcome = "ProbeFailed"
  /\ edge_version = NoVersion
  /\ pc = "Done"

\* C4: every failure of get_available_versions, a failed request or an
\* unparsable body, gives an empty list, start position 0 and a run that
\* ends Exhausted instead of crashing.
C4_FetchFailureNonFatal ==
  fetch \in {"request_failed", "parse_failed"} =>
    /\ outcome # "Crashed"
    /\ available_versions = <<>>
    /\ start_index = 0
    /\ pc = "Done" => outcome = "Exhausted"

\* C5: when install_webdriver ran in a directory that already had the
\* fixed-name symlink (whatever it pointed at), and no filesystem call
\* failed for a reason of the environment, the symlink afterwards resolves
\* to the versioned artifact just installed.
C5_SymlinkReplaced ==
  ( /\ pc \in {"InstallReturned", "Done"}
    /\ installs # <<>>
    /\ fs0.link # NoLink
    /\ ~(failed # "none" /\ error = "OSError") )
  => /\ fs.link = Installing
     /\ Installing \in fs.files

\* C6: when every candidate from the start position to the end of the list
\* was tried and none was downloaded (also when the list is empty), the run
\* ends Exhausted with exit code 0, the failure message logged,
\* install_webdriver never called and the install directory untouched.
C6_ExhaustedOnAllFailures ==
  ( /\ pc = "Done"
    /\ fetch \in {"ok", "request_failed"}
    /\ Len(tried) = Len(available_versions) - start_index
    /\ \A k \in 1..Len(results) : results[k] # "True" )
  => /\ outcome = "Exhausted"
     /\ exitCode = 0
     /\ logs[Len(logs)] = "failed_to_download_and_install"
     /\ installs = <<>>
     /\ fs.dir = fs0.dir /\ fs.files = fs0.files /\ fs.link = fs0.link

\* C7: install_webdriver runs its steps in the fixed order; a failing step
\* is caught, nothing after it runs, what the earlier steps did stays, and
\* the archive is deleted only when every step before succeeded.
C7_InstallSteps ==
  LET order == <<"extract", "chmod", "mkdir", "move", "unlink", "symlink",
                 "remove">>
      At(s) == CHOOSE k \in 1..Len(order) : order[k] = s
      Did(s) == \E k \in 1..Len(steps) : steps[k] = s
  IN  installs # <<>> =>
        /\ outcome # "Crashed"
        /\ \A k \in 1..Len(steps) : \E j \in 1..Len(order) : steps[k] = order[j]
        /\ \A k \in 1..(Len(steps) - 1) : At(steps[k]) < At(steps[k + 1])
        /\ \A j \in 1..Len(order) :
             (Did(order[j]) /\ j > 1) =>
               \A i \in 1..(j - 1) : order[i] # "unlink" => Did(order[i])
        /\ failed # "none" =>
             /\ pc \in {"InstallReturned", "Done"}
             /\ \A k \in 1..Len(steps) : At(steps[k]) < At(failed)
             /\ \E k \in 1..Len(logs) : logs[k] = "error_installing"
        /\ (Did("extract") /\ ~Did("move")) => fs.staged = Installing
        /\ (Did("chmod") /\ ~Did("move")) => fs.mode = "0755"
        /\ Did("mkdir") => fs.dir
        /\ Did("move") => Installing \in fs.files /\ Installing \in fs.exec
        /\ (Did("unlink") /\ ~Did("symlink")) => fs.link = NoLink
        /\ Did("symlink") => fs.link = Installing
        /\ Did("remove") <=> fs.archive = NoFile
        /\ Did("remove") => failed = "none"

\* the move failed: the directory that mkdir created and the staged
\* executable are still there, and so is the archive
C7_Witness ==
  /\ pc = "Done"
  /\ failed = "move"
  /\ fs.dir /\ ~fs0.dir
  /\ fs.staged = Installing
  /\ fs.mode = "0755"
  /\ fs.archive = Installing

\* C8: no call of download_webdriver raises; it returns True or False.
C8_DownloadNeverRaises ==
  \A k \in 1..Len(results) : results[k] \in {"True", "False"}

\* C9: once the first step is done the install directory is one of the
\* entries of the search path.
C9_DirOnPath ==
  LET e == install_dir
      IsEntry ==
        \E k \in 1..(Len(PATH) + 1) :
          /\ k = 1 \/ PATH[k - 1] = PathSep
          /\ k + Len(e) - 1 <= Len(PATH)
          /\ SubSeq(PATH, k, k + Len(e) - 1) = e
          /\ k + Len(e) - 1 = Len(PATH) \/ PATH[k + Len(e)] = PathSep
  IN  pc # "Idle" => IsEntry

\* C10: a finished run ended ProbeFailed, Installed or Exhausted; no
\* position was downloaded twice, there were at most Len(L) - start
\* attempts, and install_webdriver was called at most once, right after
\* the successful download of the same version.
C10_OneOutcome ==
  /\ pc = "Done" => outcome \in {"ProbeFailed", "Installed", "Exhausted"}
  /\ \A j, k \in 1..Len(tried) : j # k => tried[j] # tried[k]
  /\ Len(tried) <= Len(available_versions) - start_index
  /\ Len(installs) <= 1
  /\ installs # <<>> =>
       /\ results[Len(results)] = "True"
       /\ installs[1] = available_versions[tried[Len(tried)] + 1]

====
